---- MODULE Spec2Model ----
(***************************************************************************)
(* Model of src/app.js: camera stream lifecycle, model loading and the     *)
(* repeating prediction loop, as run by the browser's single event loop.   *)
(* Every action is one complete run of a handler or of the continuation of *)
(* an async function after an await, microtasks included: nothing else can *)
(* run between the resolution of an already-resolved promise and the code  *)
(* that awaits it.                                                         *)
(*                                                                         *)
(* The environment answers every pending request either way and at any     *)
(* time: getUserMedia, enumerateDevices, mobilenet.load and model.classify *)
(* resolve or reject, play() is allowed or not, timers fire while live.    *)
(* document.hidden is read only by the visibilitychange handler, so the    *)
(* two values it can have there are two actions. startPredictions and      *)
(* loadModel are reached only through attachStream (app.js:76).            *)
(***************************************************************************)
EXTENDS Integers, Sequences, FiniteSets, TLC

\* ----------------------------------------------------------------- bounds
\* startCamera() invocations in one page session (stream k belongs to call k)
MaxStarts == 2
\* classifications started by timer ticks that may be pending together
MaxTickPasses == 2
\* devices in an enumerateDevices() answer given to the selection on its own
MaxDevices == 3
\* results in a list given to updatePredictions on its own
MaxPreds == 2

PREDICTION_INTERVAL == 500

VARIABLES
    currentStream,    \* app.js:4   0 is null, else the id of a stream
    model,            \* app.js:5   0 is null, else the id of a model instance
    predictInterval,  \* app.js:6   0 is null, else the id of a timer
    streams,          \* stream id -> "none" | "live" | "stopped" (its tracks)
    timers,           \* ids of the setInterval timers not yet cleared
    timerSeq,         \* timers created so far (ids are handed out in order)
    modelSeq,         \* model instances created so far by mobilenet.load()
    loading,          \* startPredictions calls suspended in loadModel (app.js:127)
    firstPass,        \* startPredictions calls suspended at app.js:177
    tickPass,         \* timer-tick runOnce calls suspended at app.js:170
    list,             \* the <li> entries of predictionsList
    status,           \* text of the h3 of resultsEl
    srcObject,        \* videoEl.srcObject (0 is null)
    muted,            \* videoEl.muted
    paused,           \* videoEl.paused
    alerts,           \* alert() dialogs shown so far
    starts,           \* startCamera call k -> [pc, dev]
    domLoaded,        \* DOMContentLoaded has fired
    hasGetUserMedia,  \* the browser has navigator.mediaDevices.getUserMedia
    srcObjectThrows,  \* the srcObject setter of this browser throws
    lastOp,           \* history: the handler that ran last and what it found
    probe             \* a pure part of the code run on its own: [fn, input, before, output]

prog == <<currentStream, model, predictInterval, streams, timers, timerSeq,
          modelSeq, loading, firstPass, tickPass, list, status, srcObject,
          muted, paused, alerts>>
\* prog without the alerts
session == <<currentStream, model, predictInterval, streams, timers, timerSeq,
             modelSeq, loading, firstPass, tickPass, list, status, srcObject,
             muted, paused>>
\* what no handler writes
env == <<hasGetUserMedia, srcObjectThrows, probe>>
vars == <<prog, starts, domLoaded, env, lastOp>>

StreamIds == 1..MaxStarts

\* The program state as one value, so that a handler is a function on it.
Cur ==
    [currentStream |-> currentStream, model |-> model,
     predictInterval |-> predictInterval, streams |-> streams,
     timers |-> timers, timerSeq |-> timerSeq, modelSeq |-> modelSeq,
     loading |-> loading, firstPass |-> firstPass, tickPass |-> tickPass,
     list |-> list, status |-> status, srcObject |-> srcObject,
     muted |-> muted, paused |-> paused, alerts |-> alerts]

Commit(g) ==
    /\ currentStream' = g.currentStream
    /\ model' = g.model
    /\ predictInterval' = g.predictInterval
    /\ streams' = g.streams
    /\ timers' = g.timers
    /\ timerSeq' = g.timerSeq
    /\ modelSeq' = g.modelSeq
    /\ loading' = g.loading
    /\ firstPass' = g.firstPass
    /\ tickPass' = g.tickPass
    /\ list' = g.list
    /\ status' = g.status
    /\ srcObject' = g.srcObject
    /\ muted' = g.muted
    /\ paused' = g.paused
    /\ alerts' = g.alerts

\* ------------------------------------------------------ rendering, 137-152
Placeholder == [label |-> "No hay predicciones", pct |-> -1]

\* probability is held in millionths; pct is hundredths of a percent, i.e.
\* (probability * 100).toFixed(2) without its decimal point.
FormatEntry(p) == [label |-> p.className, pct |-> (p.probability + 50) \div 100]

UpdatePredictions_Append(g, preds) ==
    IF preds.null \/ Len(preds.items) = 0
    THEN [g EXCEPT !.list = @ \o <<Placeholder>>]
    ELSE [g EXCEPT !.list = @ \o [k \in 1..Len(preds.items) |-> FormatEntry(preds.items[k])]]

\* preds is [null |-> BOOLEAN, items |-> sequence of [className, probability]]
UpdatePredictions(g, preds) ==
    IF preds.null \/ Len(preds.items) = 0
    THEN [g EXCEPT !.list = <<Placeholder>>]
    ELSE [g EXCEPT !.list = [k \in 1..Len(preds.items) |-> FormatEntry(preds.items[k])]]

NullPreds == [null |-> TRUE, items |-> <<>>]
Arr(items) == [null |-> FALSE, items |-> items]

\* Results the classifier may answer with.
PredsCat == Arr(<<[className |-> "cat", probability |-> 853200],
                  [className |-> "dog", probability |-> 100000]>>)
ClassifyResults == {Arr(<<>>), PredsCat}

\* ------------------------------------------------- prediction loop, 154-188
StopPredictions_KeepTimer(g) == UpdatePredictions(g, Arr(<<>>))

StopPredictions(g) ==
    LET c == IF g.predictInterval # 0
             THEN [g EXCEPT !.timers = @ \ {g.predictInterval},
                            !.predictInterval = 0]
             ELSE g
    IN  UpdatePredictions(c, Arr(<<>>))

\* app.js:168-170, runOnce up to its await: model.classify(videoEl) is issued
RunOnceFirst(g) == [g EXCEPT !.firstPass = @ + 1]
RunOnceTick(g) == [g EXCEPT !.tickPass = @ + 1]

\* app.js:164-177, startPredictions after loadModel has returned
AfterLoad_NoGuard(g) == RunOnceFirst(g)

AfterLoad(g) == IF g.predictInterval # 0 THEN g ELSE RunOnceFirst(g)

StartPredictions_AlwaysLoad(g) ==
    IF g.currentStream = 0 THEN g
    ELSE [g EXCEPT !.status = "Cargando modelo...", !.loading = @ + 1]

\* app.js:154-158 with loadModel 122-127: up to the first real suspension
StartPredictions(g) ==
    IF g.currentStream = 0 THEN g
    ELSE IF g.model # 0 THEN AfterLoad(g)
    ELSE [g EXCEPT !.status = "Cargando modelo...", !.loading = @ + 1]

\* app.js:127-129: mobilenet.load() resolved with a new instance
LoadResolved(g) ==
    AfterLoad([g EXCEPT !.loading = @ - 1, !.modelSeq = @ + 1,
                        !.model = g.modelSeq + 1, !.status = "Modelo cargado"])

LoadRejected_StartsAnyway(g) ==
    AfterLoad([g EXCEPT !.loading = @ - 1, !.status = "Error cargando modelo"])

\* app.js:130-134 and 159-162
LoadRejected(g) ==
    [g EXCEPT !.loading = @ - 1, !.status = "Error cargando modelo"]

\* app.js:178
SetInterval(g) ==
    [g EXCEPT !.timerSeq = @ + 1, !.timers = @ \cup {g.timerSeq + 1},
              !.predictInterval = g.timerSeq + 1]

\* app.js:170-178, the first pass answers
FirstPassDone(g, ok, preds) ==
    LET a == [g EXCEPT !.firstPass = @ - 1]
        b == IF ok THEN UpdatePredictions(a, preds) ELSE a
    IN  SetInterval(b)

TickPassDone_StopOnError(g, ok, preds) ==
    LET a == [g EXCEPT !.tickPass = @ - 1]
    IN  IF ok THEN UpdatePredictions(a, preds) ELSE StopPredictions(a)

\* app.js:170-174, a tick's pass answers
TickPassDone(g, ok, preds) ==
    LET a == [g EXCEPT !.tickPass = @ - 1]
    IN  IF ok THEN UpdatePredictions(a, preds) ELSE a

\* ------------------------------------------------- stream lifecycle, 60-97
StopTracks_Skip(g) == g

\* app.js:86
StopTracks(g) == [g EXCEPT !.streams[g.currentStream] = "stopped"]

StopCamera_PredictionsFirst(g) ==
    IF g.currentStream = 0 THEN StopPredictions(g)
    ELSE LET a == StopTracks(g)
             b == [a EXCEPT !.currentStream = 0, !.paused = TRUE]
             c == IF srcObjectThrows THEN b ELSE [b EXCEPT !.srcObject = 0]
         IN  StopPredictions(c)

StopCamera_KeepSource(g) ==
    IF g.currentStream = 0 THEN g
    ELSE StopPredictions([StopTracks(g) EXCEPT !.currentStream = 0, !.paused = TRUE])

StopCamera(g) ==
    IF g.currentStream = 0 THEN g
    ELSE LET a == StopTracks(g)
             b == [a EXCEPT !.currentStream = 0, !.paused = TRUE]
             \* 89-94: where the setter throws, srcObject keeps its value and
             \* removeAttribute('src') finds no attribute to remove
             c == IF srcObjectThrows THEN b ELSE [b EXCEPT !.srcObject = 0]
         IN  StopPredictions(c)

OnVisibilityChange_Always(g, hidden) ==
    IF g.currentStream # 0 THEN StopCamera(g) ELSE g

\* app.js:103-108, the visibilitychange listener; hidden is document.hidden
OnVisibilityChange(g, hidden) ==
    IF hidden /\ g.currentStream # 0 THEN StopCamera(g) ELSE g

AttachStream_NoStop(g, stream, playOk) ==
    LET b == [g EXCEPT !.currentStream = stream]
    IN  IF srcObjectThrows THEN b
        ELSE StartPredictions(
                 [b EXCEPT !.srcObject = stream, !.muted = TRUE,
                           !.paused = IF playOk THEN FALSE ELSE @])

AttachStream(g, stream, playOk) ==
    LET a == IF g.currentStream # 0 THEN StopCamera(g) ELSE g
        b == [a EXCEPT !.currentStream = stream]
    IN  IF srcObjectThrows THEN b
        ELSE StartPredictions(
                 [b EXCEPT !.srcObject = stream, !.muted = TRUE,
                           !.paused = IF playOk THEN FALSE ELSE @])

\* getUserMedia resolves: the browser has created a stream with live tracks
NewStream(g, stream) == [g EXCEPT !.streams[stream] = "live"]

Alert_Twice(g) == [g EXCEPT !.alerts = @ + 2]

Alert_AndStop(g) == [StopCamera(g) EXCEPT !.alerts = @ + 1]

\* app.js:55-56, the catch of the fallback
Alert(g) == [g EXCEPT !.alerts = @ + 1]

\* ------------------------------------------------- device selection, 31-46
\* A label is its sequence of characters.
Upper == <<"A","B","C","D","E","F","G","H","I","J","K","L","M",
           "N","O","P","Q","R","S","T","U","V","W","X","Y","Z">>
Lower == <<"a","b","c","d","e","f","g","h","i","j","k","l","m",
           "n","o","p","q","r","s","t","u","v","w","x","y","z">>

\* the /i flag: letters compare by their lower-case form
Fold(ch) ==
    IF \E k \in 1..Len(Upper) : Upper[k] = ch
    THEN Lower[CHOOSE k \in 1..Len(Upper) : Upper[k] = ch]
    ELSE ch

Contains(label, word) ==
    \E at \in 0..(Len(label) - Len(word)) :
        \A k \in 1..Len(word) : Fold(label[at + k]) = word[k]

BackWords ==
    { <<"b","a","c","k">>, <<"r","e","a","r">>,
      <<"e","n","v","i","r","o","n","m","e","n","t">>,
      <<"t","r","a","s","e","r","a">>,
      <<"p","o","s","t","e","r","i","o","r">> }

\* app.js:40, backRegex.test(label)
BackRegexTest(label) == \E w \in BackWords : Contains(label, w)

\* app.js:33
VideoDevices(devices) == SelectSeq(devices, LAMBDA d : d.kind = "videoinput")

ChooseDevice_First(videoDevices) == videoDevices[1]

\* app.js:41-46, for a non-empty list
ChooseDevice(videoDevices) ==
    IF \E k \in 1..Len(videoDevices) : BackRegexTest(videoDevices[k].label)
    THEN videoDevices[CHOOSE k \in 1..Len(videoDevices) :
            /\ BackRegexTest(videoDevices[k].label)
            /\ \A j \in 1..(k - 1) : ~BackRegexTest(videoDevices[j].label)]
    ELSE videoDevices[Len(videoDevices)]

Dev(kind, label, id) == [kind |-> kind, label |-> label, deviceId |-> id]
LabelFront == <<"F","r","o","n","t"," ","C","a","m","e","r","a">>
LabelBack == <<"B","a","c","k"," ","C","a","m","e","r","a">>
LabelTrasera == <<"C","A","M","A","R","A"," ","T","R","A","S","E","R","A">>
LabelA == <<"C","a","m","e","r","a"," ","A">>
LabelB == <<"C","a","m","e","r","a"," ","B">>
LabelRearMic == <<"R","e","a","r"," ","m","i","c">>

\* Answers enumerateDevices() may give.
DeviceLists ==
    { <<>>,
      <<Dev("audioinput", LabelRearMic, 3)>>,
      <<Dev("videoinput", LabelFront, 1), Dev("videoinput", LabelBack, 2)>>,
      <<Dev("videoinput", LabelTrasera, 2), Dev("videoinput", LabelBack, 1)>>,
      <<Dev("videoinput", LabelA, 1), Dev("videoinput", LabelB, 2),
        Dev("audioinput", LabelRearMic, 3)>>,
      <<Dev("videoinput", <<>>, 2), Dev("audioinput", <<>>, 3),
        Dev("videoinput", <<>>, 1)>> }

\* app.js:33-46 for each of these answers, worked out once: the deviceId
\* requested at line 49, or 0 where line 36 throws
SelectDevice(devices) ==
    LET videoDevices == VideoDevices(devices)
    IN  IF Len(videoDevices) = 0 THEN 0
        ELSE ChooseDevice(videoDevices).deviceId

Selection == [devices \in DeviceLists |-> SelectDevice(devices)]

\* ---------------------------------------------------------------- history
\* The handler that ran last, and whether it found a current stream and a
\* timer handle; handlers no property asks about are "other".
Op(name, stream, timer) ==
    [name |-> name, hadStream |-> stream # 0, hadTimer |-> timer # 0]

Other == lastOp' = Op("other", 0, 0)

NoStart == [pc |-> "new", dev |-> 0]

NoProbe == [fn |-> "none", input |-> <<>>, before |-> <<>>, output |-> -1]

\* The page after the script has run, its list showing l.
InitWith(l) ==
    /\ currentStream = 0 /\ model = 0 /\ predictInterval = 0
    /\ streams = [s \in StreamIds |-> "none"]
    /\ timers = {} /\ timerSeq = 0 /\ modelSeq = 0
    /\ loading = 0
    /\ firstPass = 0
    /\ tickPass = 0
    /\ list = l
    /\ status = ""
    /\ srcObject = 0 /\ muted = FALSE /\ paused = TRUE
    /\ alerts = 0
    /\ starts = [k \in StreamIds |-> NoStart]
    /\ domLoaded = FALSE
    /\ hasGetUserMedia \in BOOLEAN
    /\ srcObjectThrows \in BOOLEAN
    /\ lastOp = Op("other", 0, 0)

InitState == InitWith(<<>>)

Init == InitState /\ probe = NoProbe

\* ------------------------------------------------------ startCamera, 14-58
\* What the test at app.js:15 may find. It is made anew at every call: a page
\* whose browser has the API can still find it gone at a later call (the
\* navigator property is configurable); a browser without it never gains it.
ApiSeen == IF hasGetUserMedia THEN BOOLEAN ELSE {FALSE}

\* app.js:15-23, the call up to its first await; k is the next unused call
StartCameraBegin(k) ==
    /\ starts[k].pc = "new"
    /\ \A j \in 1..(k - 1) : starts[j].pc # "new"
    /\ \E api \in ApiSeen :
          IF api
          THEN /\ starts' = [starts EXCEPT ![k].pc = "getUserMedia"]
               /\ UNCHANGED alerts
          ELSE /\ starts' = [starts EXCEPT ![k].pc = "done"]
               /\ alerts' = alerts + 1

\* app.js:111-115
DOMContentLoaded ==
    /\ ~domLoaded
    /\ domLoaded' = TRUE
    /\ status' = "Inicializando camara y modelo..."
    /\ StartCameraBegin(1)
    /\ Other
    /\ UNCHANGED <<currentStream, model, predictInterval, streams, timers,
                   timerSeq, modelSeq, loading, firstPass, tickPass, list,
                   srcObject, muted, paused, env>>

\* window.startCamera(), app.js:118
StartCameraCall(k) ==
    /\ domLoaded
    /\ StartCameraBegin(k)
    /\ Other
    /\ UNCHANGED <<currentStream, model, predictInterval, streams, timers,
                   timerSeq, modelSeq, loading, firstPass, tickPass, list,
                   status, srcObject, muted, paused, domLoaded, env>>

\* app.js:23-25, the hinted request resolves
HintedResolved(k, playOk) ==
    /\ starts[k].pc = "getUserMedia"
    /\ Commit(AttachStream(NewStream(Cur, k), k, playOk))
    /\ starts' = [starts EXCEPT ![k].pc = "done"]
    /\ lastOp' = Op("attachStream", currentStream, predictInterval)
    /\ UNCHANGED <<domLoaded, env>>

\* app.js:26-32, the hinted request rejects; enumerateDevices() is issued
HintedRejected(k) ==
    /\ starts[k].pc = "getUserMedia"
    /\ starts' = [starts EXCEPT ![k].pc = "enumerateDevices"]
    /\ Other
    /\ UNCHANGED <<prog, domLoaded, env>>

\* app.js:32-51 and 54-57, enumerateDevices() resolves
EnumerateResolved(k, devices) ==
    /\ starts[k].pc = "enumerateDevices"
    /\ IF Selection[devices] = 0
       THEN /\ Commit(Alert(Cur))
            /\ starts' = [starts EXCEPT ![k].pc = "done"]
       ELSE /\ starts' = [starts EXCEPT ![k] =
                    [pc |-> "getUserMediaExact", dev |-> Selection[devices]]]
            /\ UNCHANGED prog
    /\ lastOp' = IF Selection[devices] = 0
                 THEN Op("startFailed", currentStream, predictInterval)
                 ELSE Op("other", 0, 0)
    /\ UNCHANGED <<domLoaded, env>>

\* app.js:32 and 54-57, enumerateDevices() rejects
EnumerateRejected(k) ==
    /\ starts[k].pc = "enumerateDevices"
    /\ Commit(Alert(Cur))
    /\ starts' = [starts EXCEPT ![k].pc = "done"]
    /\ lastOp' = Op("startFailed", currentStream, predictInterval)
    /\ UNCHANGED <<domLoaded, env>>

\* app.js:48-53, the exact-device request resolves
ExactResolved(k, playOk) ==
    /\ starts[k].pc = "getUserMediaExact"
    /\ Commit(AttachStream(NewStream(Cur, k), k, playOk))
    /\ starts' = [starts EXCEPT ![k].pc = "done"]
    /\ lastOp' = Op("attachStream", currentStream, predictInterval)
    /\ UNCHANGED <<domLoaded, env>>

\* app.js:48 and 54-57, the exact-device request rejects
ExactRejected(k) ==
    /\ starts[k].pc = "getUserMediaExact"
    /\ Commit(Alert(Cur))
    /\ starts' = [starts EXCEPT ![k].pc = "done"]
    /\ lastOp' = Op("startFailed", currentStream, predictInterval)
    /\ UNCHANGED <<domLoaded, env>>

\* ----------------------------------------------------- the other handlers
\* window.stopCamera(), app.js:119
StopCameraCall ==
    /\ domLoaded
    /\ Commit(StopCamera(Cur))
    /\ lastOp' = Op("stopCamera", currentStream, predictInterval)
    /\ UNCHANGED <<starts, domLoaded, env>>

\* app.js:103-108, visibilitychange with document.hidden true
VisibilityHidden ==
    /\ domLoaded
    /\ Commit(OnVisibilityChange(Cur, TRUE))
    /\ lastOp' = Op("hidden", currentStream, predictInterval)
    /\ UNCHANGED <<starts, domLoaded, env>>

\* app.js:103-108, visibilitychange with document.hidden false
VisibilityVisible ==
    /\ domLoaded
    /\ Commit(OnVisibilityChange(Cur, FALSE))
    /\ lastOp' = Op("visible", 0, 0)
    /\ UNCHANGED <<starts, domLoaded, env>>

\* app.js:127, window.mobilenet.load() resolves for one of the waiting calls
ModelLoaded ==
    /\ loading > 0
    /\ Commit(LoadResolved(Cur))
    /\ Other
    /\ UNCHANGED <<starts, domLoaded, env>>

\* app.js:130-134, window.mobilenet.load() rejects
ModelLoadFailed ==
    /\ loading > 0
    /\ Commit(LoadRejected(Cur))
    /\ Other
    /\ UNCHANGED <<starts, domLoaded, env>>

\* app.js:170-171 and 178, the classification of a first pass resolves
FirstPassResolved(preds) ==
    /\ firstPass > 0
    /\ Commit(FirstPassDone(Cur, TRUE, preds))
    /\ Other
    /\ UNCHANGED <<starts, domLoaded, env>>

\* app.js:172-174 and 178, the classification of a first pass rejects
FirstPassRejected ==
    /\ firstPass > 0
    /\ Commit(FirstPassDone(Cur, FALSE, NullPreds))
    /\ lastOp' = Op("classifyFailed", currentStream, predictInterval)
    /\ UNCHANGED <<starts, domLoaded, env>>

\* app.js:178, a live timer fires and runOnce issues a classification
TimerTick ==
    /\ timers # {}
    /\ tickPass < MaxTickPasses
    /\ Commit(RunOnceTick(Cur))
    /\ Other
    /\ UNCHANGED <<starts, domLoaded, env>>

\* app.js:170-171, the classification of a tick resolves
TickPassResolved(preds) ==
    /\ tickPass > 0
    /\ Commit(TickPassDone(Cur, TRUE, preds))
    /\ Other
    /\ UNCHANGED <<starts, domLoaded, env>>

\* app.js:172-174, the classification of a tick rejects
TickPassRejected ==
    /\ tickPass > 0
    /\ Commit(TickPassDone(Cur, FALSE, NullPreds))
    /\ lastOp' = Op("classifyFailed", currentStream, predictInterval)
    /\ UNCHANGED <<starts, domLoaded, env>>

Next ==
    \/ DOMContentLoaded
    \/ \E k \in StreamIds : StartCameraCall(k)
    \/ \E k \in StreamIds, playOk \in BOOLEAN : HintedResolved(k, playOk)
    \/ \E k \in StreamIds : HintedRejected(k)
    \/ \E k \in StreamIds, devices \in DeviceLists : EnumerateResolved(k, devices)
    \/ \E k \in StreamIds : EnumerateRejected(k)
    \/ \E k \in StreamIds, playOk \in BOOLEAN : ExactResolved(k, playOk)
    \/ \E k \in StreamIds : ExactRejected(k)
    \/ StopCameraCall
    \/ VisibilityHidden
    \/ VisibilityVisible
    \/ ModelLoaded
    \/ ModelLoadFailed
    \/ \E preds \in ClassifyResults : FirstPassResolved(preds)
    \/ FirstPassRejected
    \/ TimerTick
    \/ \E preds \in ClassifyResults : TickPassResolved(preds)
    \/ TickPassRejected

Spec == Init /\ [][Next]_vars

\* ------------------------------------------------------------ properties
Pending == {"getUserMedia", "getUserMediaExact"}

\* The step is the continuation of start k in which its stream is attached.
Attaches(k) ==
    /\ starts[k].pc \in Pending
    /\ lastOp'.name = "attachStream"
    /\ starts'[k].pc = "done"

\* The step is a run of stopCamera() from the console or the hidden handler.
Stops == lastOp'.name \in {"stopCamera", "hidden"}

IsResult(l) == l # <<>> /\ l # <<Placeholder>>

\* C1: between handlers, a stream handed to attachStream whose tracks are
\* not stopped is the one stored in currentStream, so at most one is live.
C1_OneLiveStream ==
    \A s \in StreamIds : streams[s] = "live" => currentStream = s

\* A second stream was attached over a first one, which is now stopped.
C1_Witness ==
    /\ lastOp.name = "attachStream" /\ lastOp.hadStream
    /\ \E s, t \in StreamIds :
          s # t /\ streams[s] = "stopped" /\ streams[t] = "live" /\ currentStream = t

\* C2: a live repeating timer exists only while currentStream and model are
\* both non-null.
C2_TimerOnlyWhileActive ==
    timers # {} => (currentStream # 0 /\ model # 0)

\* C3: at most one uncancelled timer exists, and every uncancelled timer is
\* the one predictInterval refers to.
C3_SingleTimerHandle ==
    /\ Cardinality(timers) <= 1
    /\ \A t \in timers : t = predictInterval

\* C4: when a start succeeds while a stream is current, the old stream ends
\* with no live track, the new stream is the current one and the only live one.
C4_ReplaceStopsOld ==
    [][\A k \in StreamIds :
          (Attaches(k) /\ currentStream # 0) =>
              /\ streams'[currentStream] = "stopped"
              /\ currentStream' = k
              /\ streams'[k] = "live"
              /\ \A s \in StreamIds \ {k} : streams'[s] # "live"]_vars

\* An attach found a current stream; the new one is now current.
C4_Witness ==
    /\ lastOp.name = "attachStream" /\ lastOp.hadStream
    /\ currentStream # 0 /\ streams[currentStream] = "live"
    /\ \E s \in StreamIds \ {currentStream} : streams[s] = "stopped"

Idle == currentStream = 0 /\ timers = {}

NoStartCall == \A k \in StreamIds : starts[k].pc = "new" => starts'[k].pc = "new"

\* C5: once the hidden handler has left the system idle, it stays idle as
\* long as no new startCamera() call is made.
C5_StaysIdleAfterHidden ==
    [][(lastOp.name = "hidden" /\ Idle /\ NoStartCall) => Idle']_vars

\* C6: once stopCamera has rendered the empty result set, a classification
\* that was in flight at that moment does not change the displayed list.
C6_StalePassNotPublished ==
    [][(lastOp.name \in {"stopCamera", "hidden"} /\ lastOp.hadStream)
          => list' = list]_vars

\* C7: a timer tick never issues a classification while another one, of an
\* earlier tick or of the immediate first pass, is still pending.
C7_TickWaitsForPending ==
    [][tickPass' = tickPass + 1 => (tickPass = 0 /\ firstPass = 0)]_vars

C9_StopWithoutStreamIsNoOp ==
    [][(lastOp'.name = "stopCamera" /\ currentStream = 0)
          => UNCHANGED <<prog, starts>>]_vars

\* stopCamera() has just run without a stream while a timer was live and
\* the list showed results, so a re-render or a cancel would have shown.
C9_Witness ==
    /\ lastOp.name = "stopCamera" /\ ~lastOp.hadStream /\ lastOp.hadTimer
    /\ IsResult(list) /\ predictInterval \in timers

\* C10: startPredictions() run while predictInterval is set and the model is
\* loaded creates no timer, keeps the handle, issues no classification and
\* leaves the list alone. The program reaches that call from attachStream
\* when no stream was current.
C10_StartWhileRunningIsNoOp ==
    [][(\E k \in StreamIds : Attaches(k)) /\ currentStream = 0
         /\ predictInterval # 0 /\ model # 0 /\ ~srcObjectThrows
          => UNCHANGED <<predictInterval, timers, timerSeq, firstPass, tickPass,
                         loading, model, modelSeq, list, status>>]_vars

\* An attach has just called startPredictions() with the loop still running.
C10_Witness ==
    /\ lastOp.name = "attachStream" /\ ~lastOp.hadStream /\ lastOp.hadTimer
    /\ ~srcObjectThrows /\ currentStream # 0 /\ predictInterval \in timers

\* The step is the rejection of a pending window.mobilenet.load().
LoadFails == loading' < loading /\ modelSeq' = modelSeq

\* C11: a failed model load starts nothing for that attempt: the timer
\* handle, the timers and the pending classifications are as before, the
\* model cache is not written, the status is the load-error message and no
\* load is issued except by the attachStream of a start.
C11_LoadFailureStartsNothing ==
    [][/\ LoadFails =>
              /\ UNCHANGED <<predictInterval, timers, timerSeq, firstPass,
                             tickPass, model, list, currentStream>>
              /\ status' = "Error cargando modelo"
              /\ loading' = loading - 1
       /\ loading' > loading => \E k \in StreamIds : Attaches(k)]_vars

\* The only load of the session has failed: no loop, no model, no retry.
C11_Witness ==
    /\ status = "Error cargando modelo"
    /\ currentStream # 0 /\ modelSeq = 0 /\ model = 0 /\ loading = 0
    /\ predictInterval = 0 /\ timers = {} /\ firstPass = 0 /\ tickPass = 0

\* C12: a classification that fails leaves the list as it was and the loop
\* going: after a failed first pass the timer is created and predictInterval
\* refers to it, after a failed tick the timers and the handle are as before.
C12_FailedPassKeepsLoop ==
    [][lastOp'.name = "classifyFailed" =>
          /\ list' = list
          /\ firstPass' < firstPass =>
                /\ predictInterval' \in timers' /\ predictInterval' \notin timers
                /\ timers \subseteq timers'
          /\ tickPass' < tickPass => UNCHANGED <<timers, predictInterval>>]_vars

\* A tick has just failed under a running loop: the earlier results are
\* still shown and the timer that will fire the later ticks is live.
C12_Witness ==
    /\ lastOp.name = "classifyFailed" /\ lastOp.hadTimer
    /\ IsResult(list) /\ predictInterval \in timers /\ currentStream # 0

\* How far a startCamera call has come.
Rank(pc) ==
    CASE pc = "new" -> 0
      [] pc = "getUserMedia" -> 1
      [] pc = "enumerateDevices" -> 2
      [] pc = "getUserMediaExact" -> 3
      [] pc = "done" -> 4

\* The step ends start k after the hinted request and the fallback failed.
FailsBoth(k) ==
    /\ starts[k].pc \in {"enumerateDevices", "getUserMediaExact"}
    /\ starts'[k].pc = "done"
    /\ lastOp'.name # "attachStream"

\* C13: the step in which both acquisitions of a start have failed shows one
\* alert and changes nothing else; no other step of a started attempt shows
\* one; an attempt only moves forward through getUserMedia, enumerateDevices
\* and the exact getUserMedia, so it requests a stream at most twice and is
\* over after at most four answers.
C13_FailedStartAlertsOnce ==
    [][\A k \in StreamIds :
          /\ FailsBoth(k) => (alerts' = alerts + 1 /\ UNCHANGED session)
          /\ starts'[k] # starts[k] => Rank(starts'[k].pc) > Rank(starts[k].pc)
          /\ (starts[k].pc # "new" /\ starts'[k] # starts[k] /\ ~FailsBoth(k))
                => alerts' = alerts]_vars

\* The exact-device request of the only start was rejected.
C13_Witness ==
    /\ lastOp.name = "startFailed" /\ alerts = 1
    /\ currentStream = 0 /\ loading = 0 /\ predictInterval = 0
    /\ \E k \in StreamIds :
          /\ starts[k].pc = "done" /\ starts[k].dev # 0 /\ streams[k] = "none"
          /\ \A j \in StreamIds \ {k} : starts[j].pc = "new"

\* ------------------------------------------ device selection on its own
ProbeLabels == {LabelFront, LabelBack, LabelTrasera, <<>>}
DeviceKinds == {"videoinput", "audioinput"}

\* Every answer of up to MaxDevices devices; the device at position i has
\* deviceId 100 + i.
DeviceInputs ==
    UNION { { [i \in 1..n |-> Dev(f[i][1], f[i][2], 100 + i)] :
                f \in [1..n -> DeviceKinds \X ProbeLabels] } : n \in 0..MaxDevices }

InitSelect ==
    /\ InitState
    /\ probe \in { [fn |-> "select", input |-> d, before |-> <<>>, output |-> -1] :
                     d \in DeviceInputs }

\* app.js:33-49 applied to the answer
SelectStep ==
    /\ probe.fn = "select" /\ probe.output = -1
    /\ probe' = [probe EXCEPT !.output = SelectDevice(probe.input)]
    /\ UNCHANGED <<prog, starts, domLoaded, hasGetUserMedia, srcObjectThrows, lastOp>>

NextSelect == SelectStep

SpecSelect == InitSelect /\ [][NextSelect]_vars

Least(S) == CHOOSE x \in S : \A y \in S : x <= y
Greatest(S) == CHOOSE x \in S : \A y \in S : x >= y

\* C14: devices that are not video inputs play no part; with no video input
\* nothing is requested; otherwise the device requested is the first video
\* input whose label matches the keywords if there is one, and the last
\* video input if there is none.
C14_SelectsFirstMatchElseLast ==
    (probe.fn = "select" /\ probe.output # -1) =>
        LET d == probe.input
            video == {i \in 1..Len(d) : d[i].kind = "videoinput"}
            match == {i \in video : BackRegexTest(d[i].label)}
        IN  IF video = {} THEN probe.output = 0
            ELSE IF match # {} THEN probe.output = d[Least(match)].deviceId
            ELSE probe.output = d[Greatest(video)].deviceId

\* Of three video inputs the second is the first that matches: it is the
\* one requested, not the first and not the last.
C14_Witness ==
    /\ probe.fn = "select" /\ Len(probe.input) = 3
    /\ probe.input[1].kind = "videoinput" /\ ~BackRegexTest(probe.input[1].label)
    /\ probe.input[2].kind = "videoinput" /\ BackRegexTest(probe.input[2].label)
    /\ probe.input[3].kind = "videoinput"
    /\ probe.output = probe.input[2].deviceId

\* ------------------------------------------ updatePredictions on its own
ClassNames == {"cat", "dog"}
Probabilities == {49, 853200, 999950}

\* null, and every array of up to MaxPreds results
PredInputs ==
    {NullPreds} \cup
    UNION { { Arr([i \in 1..n |-> [className |-> f[i][1], probability |-> f[i][2]]]) :
                f \in [1..n -> ClassNames \X Probabilities] } : n \in 0..MaxPreds }

\* what the list may show when the call is made
PriorLists ==
    { <<>>, <<Placeholder>>,
      <<[label |-> "cat", pct |-> 8532], [label |-> "dog", pct |-> 1000],
        [label |-> "fox", pct |-> 468]>> }

InitRender ==
    \E before \in PriorLists, preds \in PredInputs :
        /\ InitWith(before)
        /\ probe = [fn |-> "render", input |-> preds, before |-> before, output |-> -1]

\* app.js:137-152
RenderStep ==
    /\ probe.fn = "render" /\ probe.output = -1
    /\ Commit(UpdatePredictions(Cur, probe.input))
    /\ probe' = [probe EXCEPT !.output = 1]
    /\ UNCHANGED <<starts, domLoaded, hasGetUserMedia, srcObjectThrows, lastOp>>

NextRender == RenderStep

SpecRender == InitRender /\ [][NextRender]_vars

\* C15: after updatePredictions(preds) the list holds one placeholder and
\* nothing else when preds is null or empty, and otherwise one entry per
\* result, in the order of preds, none of them the placeholder; nothing of
\* what the list held before remains.
C15_ListReplaced ==
    (probe.fn = "render" /\ probe.output = 1) =>
        LET items == probe.input.items
        IN  IF probe.input.null \/ Len(items) = 0
            THEN list = <<Placeholder>>
            ELSE /\ Len(list) = Len(items)
                 /\ \A i \in 1..Len(items) :
                       /\ list[i] = FormatEntry(items[i])
                       /\ list[i] # Placeholder

\* Two results of different classes replace a list of three entries.
C15_Witness ==
    /\ probe.fn = "render" /\ probe.output = 1
    /\ Len(probe.before) = 3 /\ ~probe.input.null /\ Len(probe.input.items) = 2
    /\ probe.input.items[1].className # probe.input.items[2].className
    /\ Len(list) = 2
    /\ list[1].label = probe.input.items[1].className
    /\ list[2].label = probe.input.items[2].className

\* C16: a start that reaches loadModel() when an earlier load has already
\* stored the model gets that instance: the model is not replaced, no new
\* load is issued or answered, and the status text is not rewritten.
C16_CachedModelReused ==
    [][((\E k \in StreamIds : Attaches(k)) /\ model # 0 /\ ~srcObjectThrows)
          => UNCHANGED <<model, modelSeq, loading, status>>]_vars

\* The second stream was attached after the only load had completed.
C16_Witness ==
    /\ lastOp.name = "attachStream" /\ ~srcObjectThrows /\ currentStream = 2
    /\ model = 1 /\ modelSeq = 1 /\ loading = 0 /\ status = "Modelo cargado"

\* C17: the visibilitychange listener run with document.hidden false changes
\* nothing: stream, model, timer, video binding, list and every other piece
\* of program state keep their values, and no startCamera() call is begun
\* or advanced.
C17_VisibleChangesNothing ==
    [][lastOp'.name = "visible" => UNCHANGED <<prog, starts>>]_vars

\* The page became visible with one session stopped earlier and another one
\* running; both are as they were.
C17_Witness ==
    /\ lastOp.name = "visible"
    /\ streams[1] = "stopped" /\ currentStream = 2 /\ streams[2] = "live"
    /\ predictInterval \in timers /\ IsResult(list)

\* C18: whatever the interleaving of starts, the model reference, once
\* non-null, is never replaced by another instance, and the load operation
\* succeeds at most once.
C18_ModelLoadedOnce ==
    [][/\ model # 0 => model' = model
       /\ modelSeq' <= 1]_vars

\* C19: between handlers, where assigning srcObject does not throw, the
\* video element's srcObject is the current stream, with muted set, when
\* there is a current stream, and null when there is none.
C19_VideoBoundToCurrent ==
    ~srcObjectThrows =>
        /\ srcObject = currentStream
        /\ currentStream # 0 => muted

\* The second stream has replaced the first and is the one bound.
C19_Witness ==
    /\ ~srcObjectThrows /\ lastOp.name = "attachStream" /\ lastOp.hadStream
    /\ streams[1] = "stopped" /\ currentStream = 2 /\ srcObject = 2 /\ muted

\* The step ends start k without attaching a stream.
Fails(k) ==
    /\ starts[k].pc # "done"
    /\ starts'[k].pc = "done"
    /\ lastOp'.name # "attachStream"

\* C20: a startCamera() call that ends in failure while a stream is current
\* leaves the session as it was: the current stream and its live tracks, the
\* video binding, the timer handle and the list are unchanged.
C20_FailedStartKeepsSession ==
    [][\A k \in StreamIds :
          (Fails(k) /\ currentStream # 0) => UNCHANGED session]_vars

\* A second start has just failed in both attempts while the first session
\* was running with results on display; the session still runs.
C20_Witness ==
    /\ lastOp.name = "startFailed" /\ lastOp.hadStream /\ lastOp.hadTimer
    /\ currentStream # 0 /\ streams[currentStream] = "live"
    /\ srcObject = currentStream
    /\ predictInterval \in timers /\ IsResult(list)
====
